---- MODULE Spec2Model ----
(***************************************************************************)
(* Model of menu_analyzer.py (class MenuAnalyzer): extraction of food item *)
(* names from a menu document, scoring by the remote service in batches    *)
(* with the local keyword scorer as fallback, and assembly of the per-meal *)
(* result in run_analysis.                                                 *)
(*                                                                         *)
(* A Python str is a sequence of one-character strings, so that `in`,      *)
(* lower(), strip() and split() are computed on the characters.  The       *)
(* character written "e_acute" stands for the accented e of 'sautéed'.     *)
(***************************************************************************)
EXTENDS Integers, Sequences, FiniteSets, TLC

----------------------------------------------------------------------------
(* Python str operations *)

UpperChars == <<"A","B","C","D","E","F","G","H","I","J","K","L","M","N","O","P","Q","R","S","T","U","V","W","X","Y","Z">>
LowerChars == <<"a","b","c","d","e","f","g","h","i","j","k","l","m","n","o","p","q","r","s","t","u","v","w","x","y","z">>

Range(f) == {f[k] : k \in DOMAIN f}

SetMin(S) == CHOOSE x \in S : \A y \in S : x <= y
SetMax(S) == CHOOSE x \in S : \A y \in S : x >= y

\* str.isalpha() of one character
isalpha(c) == c \in (Range(UpperChars) \cup Range(LowerChars) \cup {"e_acute"})

lower_char(c) ==
    IF c \in Range(UpperChars)
    THEN LowerChars[CHOOSE k \in DOMAIN UpperChars : UpperChars[k] = c]
    ELSE c

\* str.lower()
lower(s) == [k \in 1..Len(s) |-> lower_char(s[k])]

\* Python's `sub in s` for two strings
Contains(sub, s) ==
    \E k \in 0..(Len(s) - Len(sub)) : SubSeq(s, k + 1, k + Len(sub)) = sub

\* str.strip()
strip(s) ==
    LET solid == {k \in 1..Len(s) : s[k] # " "}
    IN  IF solid = {} THEN <<>> ELSE SubSeq(s, SetMin(solid), SetMax(solid))

\* the set of words of str.split()
split(s) ==
    LET starts == {k \in 1..Len(s) : s[k] # " " /\ (k = 1 \/ s[k - 1] = " ")}
        stop(a) == SetMin({b \in a..Len(s) : b = Len(s) \/ s[b + 1] = " "})
    IN  {SubSeq(s, a, stop(a)) : a \in starts}

\* len(str.split())
word_count(s) ==
    Cardinality({k \in 1..Len(s) : s[k] # " " /\ (k = 1 \/ s[k - 1] = " ")})

\* any(term in s for term in terms)
AnyIn(terms, s) == \E k \in DOMAIN terms : Contains(terms[k], s)

----------------------------------------------------------------------------
(* looks_like_food_item and is_navigation_or_ui_text *)

ui_terms ==
    << <<"c","l","i","c","k">>, <<"s","e","l","e","c","t">>, <<"m","e","n","u">>, <<"p","a","g","e">>, <<"h","o","m","e">>, <<"l","o","g","i","n">>,
       <<"s","e","a","r","c","h">>, <<"v","i","e","w">>, <<"p","r","i","n","t">>, <<"b","a","c","k">>, <<"n","e","x","t">>, <<"s","u","b","m","i","t">>,
       <<"c","a","n","c","e","l">>, <<"c","h","o","o","s","e">>, <<"o","p","t","i","o","n","s">>, <<"s","e","t","t","i","n","g","s">>, <<"h","e","l","p">>,
       <<"c","o","n","t","a","c","t">>, <<"a","b","o","u","t">> >>

strong_food_words ==
    << <<"c","h","i","c","k","e","n">>, <<"b","e","e","f">>, <<"p","o","r","k">>, <<"f","i","s","h">>, <<"t","u","r","k","e","y">>, <<"s","a","l","m","o","n">>,
       <<"t","u","n","a">>, <<"b","u","r","g","e","r">>, <<"p","i","z","z","a">>, <<"p","a","s","t","a">>, <<"s","a","l","a","d">>, <<"s","a","n","d","w","i","c","h">>,
       <<"s","o","u","p">>, <<"s","t","e","a","k">>, <<"r","i","c","e">>, <<"b","e","a","n","s">>, <<"v","e","g","e","t","a","b","l","e","s">>, <<"f","r","u","i","t">>,
       <<"c","h","e","e","s","e">>, <<"b","r","e","a","d">>, <<"g","r","i","l","l","e","d">>, <<"b","a","k","e","d">>, <<"f","r","i","e","d">>, <<"r","o","a","s","t","e","d">>,
       <<"s","t","e","a","m","e","d">>, <<"s","a","u","t","e_acute","e","d">> >>

moderate_food_words ==
    << <<"b","o","w","l">>, <<"p","l","a","t","e">>, <<"w","r","a","p">>, <<"r","o","l","l">>, <<"c","a","k","e">>, <<"c","o","o","k","i","e">>, <<"p","i","e">>,
       <<"s","a","u","c","e">>, <<"d","r","e","s","s","i","n","g">>, <<"s","e","a","s","o","n","e","d">>, <<"s","p","i","c","e","d">>, <<"f","r","e","s","h">>, <<"h","o","t">> >>

url_like ==
    << <<"@">>, <<"h","t","t","p">>, <<".","c","o","m">>, <<"(",")">>, <<"[","]">> >>

food_like_words ==
    << <<"b","o","w","l">>, <<"c","u","p">>, <<"p","l","a","t","e">>, <<"s","p","e","c","i","a","l">>, <<"d","a","i","l","y">>, <<"f","r","e","s","h">>,
       <<"h","o","t">>, <<"c","o","l","d">>, <<"c","l","a","s","s","i","c">>, <<"t","r","a","d","i","t","i","o","n","a","l">>, <<"h","o","m","e","m","a","d","e">>,
       <<"s","t","y","l","e">>, <<"w","i","t","h">>, <<"a","n","d">> >>

looks_like_food_item(raw) ==
    LET text       == strip(raw)
        text_lower == lower(text)
        alpha      == Cardinality({k \in 1..Len(text) : isalpha(text[k])})
        moderate_matches ==
            Cardinality({k \in DOMAIN moderate_food_words :
                            Contains(moderate_food_words[k], text_lower)})
    IN  IF Len(raw) = 0 \/ Len(text) < 3 THEN FALSE
        ELSE IF Len(text) > 100 THEN FALSE
        ELSE IF AnyIn(ui_terms, text_lower) THEN FALSE
        ELSE IF 2 * alpha < Len(text) THEN FALSE
        ELSE IF AnyIn(strong_food_words, text_lower) THEN TRUE
        ELSE IF moderate_matches > 0 /\ 2 <= word_count(text) /\ word_count(text) <= 8
             THEN TRUE
        ELSE IF /\ 2 <= word_count(text)
                /\ word_count(text) <= 6
                /\ ~AnyIn(url_like, text)
                /\ split(text_lower) \cap Range(food_like_words) # {}
             THEN TRUE
        ELSE FALSE

nav_phrases ==
    << <<"v","i","e","w"," ","m","e","n","u">>, <<"s","e","l","e","c","t"," ","d","a","t","e">>, <<"c","h","o","o","s","e"," ","l","o","c","a","t","i","o","n">>, <<"d","i","n","i","n","g"," ","o","p","t","i","o","n","s">>,
       <<"m","e","a","l"," ","p","l","a","n","s">>, <<"n","u","t","r","i","t","i","o","n"," ","i","n","f","o">>, <<"a","l","l","e","r","g","e","n"," ","i","n","f","o">>, <<"h","o","u","r","s">>,
       <<"l","o","c","a","t","i","o","n","s">>, <<"c","o","n","t","a","c","t"," ","u","s">>, <<"f","e","e","d","b","a","c","k">>, <<"t","e","r","m","s">>, <<"p","r","i","v","a","c","y">> >>

is_navigation_or_ui_text(text) == AnyIn(nav_phrases, strip(lower(text)))

----------------------------------------------------------------------------
(* analyze_food_health_local: the local keyword scorer *)

protein_keywords ==
    << [level |-> "excellent",
        keywords |-> << <<"g","r","i","l","l","e","d"," ","c","h","i","c","k","e","n">>, <<"b","a","k","e","d"," ","f","i","s","h">>, <<"t","u","r","k","e","y"," ","b","r","e","a","s","t">>,
                        <<"s","a","l","m","o","n">>, <<"t","u","n","a">> >>],
       [level |-> "good",
        keywords |-> << <<"c","h","i","c","k","e","n">>, <<"f","i","s","h">>, <<"t","u","r","k","e","y">>, <<"b","e","e","f">>, <<"e","g","g","s">>,
                        <<"t","o","f","u">>, <<"b","e","a","n","s">> >>],
       [level |-> "moderate",
        keywords |-> << <<"c","h","e","e","s","e">>, <<"n","u","t","s">>, <<"y","o","g","u","r","t">>, <<"m","i","l","k">> >>] >>

healthy_prep ==
    << [level |-> "excellent",
        keywords |-> << <<"g","r","i","l","l","e","d">>, <<"b","a","k","e","d">>, <<"s","t","e","a","m","e","d">>, <<"r","o","a","s","t","e","d">>,
                        <<"f","r","e","s","h">> >>],
       [level |-> "good",
        keywords |-> << <<"s","a","u","t","e_acute","e","d">>, <<"s","t","i","r","-","f","r","y">>, <<"b","r","o","i","l","e","d">> >>],
       [level |-> "poor",
        keywords |-> << <<"f","r","i","e","d">>, <<"d","e","e","p","-","f","r","i","e","d">>, <<"b","a","t","t","e","r","e","d">>, <<"c","r","e","a","m","y">> >>] >>

vegetarian_meats == << <<"b","e","e","f">>, <<"p","o","r","k">>, <<"c","h","i","c","k","e","n">>, <<"f","i","s","h">>, <<"t","u","r","k","e","y">> >>

\* [kw for kw in keywords if kw in item_lower]
Matches(keywords, item_lower) ==
    SelectSeq(keywords, LAMBDA kw : Contains(kw, item_lower))

\* the first level of the table with a match (the loop breaks there), or 0
FirstLevel(table, item_lower) ==
    LET hit == {k \in DOMAIN table : Matches(table[k].keywords, item_lower) # <<>>}
    IN  IF hit = {} THEN 0 ELSE SetMin(hit)

\* A reasoning fragment is <<label, keyword>>; a reasoning is the sequence
\* of the fragments that "; ".join concatenates.
protein_scoring(item_lower) ==
    LET k == FirstLevel(protein_keywords, item_lower)
    IN  IF k = 0 THEN [delta |-> 0, parts |-> <<>>]
        ELSE LET m == Matches(protein_keywords[k].keywords, item_lower)[1]
             IN  IF protein_keywords[k].level = "excellent"
                 THEN [delta |-> 25, parts |-> << <<"Excellent protein", m>> >>]
                 ELSE IF protein_keywords[k].level = "good"
                 THEN [delta |-> 15, parts |-> << <<"Good protein", m>> >>]
                 ELSE [delta |-> 8, parts |-> <<>>]

preparation_scoring(item_lower) ==
    LET k == FirstLevel(healthy_prep, item_lower)
    IN  IF k = 0 THEN [delta |-> 0, parts |-> <<>>]
        ELSE LET m == Matches(healthy_prep[k].keywords, item_lower)[1]
             IN  IF healthy_prep[k].level = "excellent"
                 THEN [delta |-> 15, parts |-> << <<"Healthy prep", m>> >>]
                 ELSE IF healthy_prep[k].level = "good"
                 THEN [delta |-> 8, parts |-> <<>>]
                 ELSE [delta |-> 0 - 20, parts |-> << <<"Unhealthy prep", m>> >>]

\* max(0, min(100, score))
clamp(score) == IF score < 0 THEN 0 ELSE IF score > 100 THEN 100 ELSE score

StandardOption == << <<"Standard option", <<>> >> >>

\* one iteration of the loop of analyze_food_health_local; r is the
\* restriction configuration [exclude_beef, exclude_pork, vegetarian]
score_item_local(item, r) ==
    LET item_lower == lower(item)
        raw ==
            IF r.exclude_beef /\ Contains(<<"b","e","e","f">>, item_lower)
            THEN [score |-> 0, parts |-> << <<"Excluded: contains", <<"b","e","e","f">>>> >>]
            ELSE IF r.exclude_pork /\ Contains(<<"p","o","r","k">>, item_lower)
            THEN [score |-> 0, parts |-> << <<"Excluded: contains", <<"p","o","r","k">>>> >>]
            ELSE IF r.vegetarian /\ AnyIn(vegetarian_meats, item_lower)
            THEN [score |-> 0, parts |-> << <<"Excluded: contains", <<"m","e","a","t">>>> >>]
            ELSE LET p == protein_scoring(item_lower)
                     h == preparation_scoring(item_lower)
                 IN  [score |-> 50 + p.delta + h.delta, parts |-> p.parts \o h.parts]
    IN  [name      |-> item,
         score     |-> clamp(raw.score),
         reasoning |-> IF raw.parts # <<>> THEN raw.parts ELSE StandardOption]

analyze_food_health_local(food_items, r) ==
    [k \in 1..Len(food_items) |-> score_item_local(food_items[k], r)]

\* a sort that puts the later of two equal scores first
sort_by_score_desc_unstable(items) ==
    LET rank(k) == Cardinality({j \in DOMAIN items : items[j].score > items[k].score})
                   + Cardinality({j \in DOMAIN items : j > k /\ items[j].score = items[k].score})
                   + 1
    IN  [p \in 1..Len(items) |-> items[CHOOSE k \in DOMAIN items : rank(k) = p]]

\* list.sort(key=lambda x: x[1], reverse=True): descending by score; the
\* sort is stable, also with reverse=True, so an item comes after every item
\* of a greater score and after the earlier items of its own score.
sort_by_score_desc(items) ==
    LET rank(k) == Cardinality({j \in DOMAIN items : items[j].score > items[k].score})
                   + Cardinality({j \in DOMAIN items : j < k /\ items[j].score = items[k].score})
                   + 1
    IN  [p \in 1..Len(items) |-> items[CHOOSE k \in DOMAIN items : rank(k) = p]]

----------------------------------------------------------------------------
(* the remote scoring service and _analyze_batch_with_gemini *)

batch_size == 10

\* bounds of the explored inputs
MaxEntries == 1
MaxItems == 12

\* a reasoning text written by the service; a missing one defaults to ""
ServiceText == << <<"service text", <<>> >> >>
NoReasoning == <<>>

\* a key of a response that names no item of the request
ExtraName == <<"C","h","e","f"," ","S","p","e","c","i","a","l">>

\* The value of "score" in an entry: absent, a value int() rejects
\* (a word, null, a list), or a number.
ScoreShapes ==
    {[kind |-> "missing", value |-> 0], [kind |-> "invalid", value |-> 0]}
    \cup {[kind |-> "int", value |-> v] : v \in {90, 150}}

\* the entries the service may return under the key of a requested item
OwnEntries(name) ==
    {[key |-> name, score |-> s, has_reasoning |-> TRUE] : s \in ScoreShapes}
    \cup {[key |-> name, score |-> [kind |-> "int", value |-> 90],
           has_reasoning |-> FALSE]}

ExtraEntries ==
    {[key |-> ExtraName, score |-> [kind |-> "int", value |-> 90],
      has_reasoning |-> TRUE]}

\* JSON objects of at most MaxEntries entries, in the order of the text: the
\* k-th entry is about the k-th item of the request or about ExtraName.
Mappings(food_batch) ==
    LET cand(k) == (IF k <= Len(food_batch) THEN OwnEntries(food_batch[k]) ELSE {})
                   \cup ExtraEntries
        all == UNION {cand(k) : k \in 1..MaxEntries}
    IN  UNION {{m \in [1..n -> all] :
                    /\ \A k \in 1..n : m[k] \in cand(k)
                    /\ \A a, b \in 1..n : a # b => m[a].key # m[b].key}
               : n \in 0..MaxEntries}

\* What one POST to the service can come to:
\*   network_error  session.post raises (connection refused, timeout)
\*   http_error     raise_for_status raises on a non-success status
\*   bad_envelope   response.json() or data["candidates"][0]... raises
\*   not_json       json.loads raises on the text
\*   not_mapping    the text parses to a list or a number, or an entry's
\*                  value is no object: .items() / .get raises
\*   mapping        the text parses to an object of objects
FailureKinds ==
    {"network_error", "http_error", "bad_envelope", "not_json", "not_mapping"}

Responses(food_batch) ==
    {[kind |-> f, entries |-> <<>>] : f \in FailureKinds}
    \cup {[kind |-> "mapping", entries |-> m] : m \in Mappings(food_batch)}

NoResponse == [kind |-> "none", entries |-> <<>>]

\* the try block raises: every failure kind, and int() of an invalid score
\* while the list is built
raises(resp) ==
    \/ resp.kind # "mapping"
    \/ \E k \in DOMAIN resp.entries : resp.entries[k].score.kind = "invalid"

\* (food, int(info.get("score", 0)), info.get("reasoning", ""))
convert_entry(e) ==
    [name      |-> e.key,
     score     |-> IF e.score.kind = "missing" THEN 0 ELSE e.score.value,
     reasoning |-> IF e.has_reasoning THEN ServiceText ELSE NoReasoning]

\* an except branch that returns nothing for the batch
analyze_batch_drops_failed_batch(food_batch, resp, r) ==
    IF raises(resp)
    THEN <<>>
    ELSE [k \in 1..Len(resp.entries) |-> convert_entry(resp.entries[k])]

analyze_batch_with_gemini(food_batch, resp, r) ==
    IF raises(resp)
    THEN analyze_food_health_local(food_batch, r)
    ELSE [k \in 1..Len(resp.entries) |-> convert_entry(resp.entries[k])]

\* a slice one item too long: food_items[i:i + batch_size + 1]
batch_at_overlapping(items, i) ==
    SubSeq(items, i + 1,
           IF i + batch_size + 1 < Len(items) THEN i + batch_size + 1 ELSE Len(items))

\* food_items[i:i + batch_size], i counted from 0
batch_at(items, i) ==
    SubSeq(items, i + 1, IF i + batch_size < Len(items) THEN i + batch_size ELSE Len(items))

----------------------------------------------------------------------------
(* the menu site: forms and documents *)

\* A node of a parsed page: its tag, whether its class attribute matches
\* menu|item|food, and its text.  Pages are flat lists of such nodes.
Node(tag, class_match, text) == [tag |-> tag, class_match |-> class_match, text |-> text]

\* get_text(strip=True) of a node holding one string
get_text(n) == strip(n.text)

DocEmpty == <<>>

DocNoise ==
    << Node("td", TRUE, <<"C","l","i","c","k"," ","h","e","r","e"," ","t","o"," ","s","e","l","e","c","t"," ","a"," ","d","a","t","e">>),
       Node("li", FALSE, <<"A","l","l","e","r","g","e","n"," ","I","n","f","o"," ","a","n","d"," ","T","e","r","m","s">>),
       Node("p", FALSE, <<"F","r","e","s","h"," ","s","e","a","s","o","n","a","l"," ","f","r","u","i","t"," ","a","n","d"," ","v","e","g","e","t","a","b","l","e"," ","m","e","d","l","e","y"," ","w","i","t","h"," ","h","o","n","e","y">>),
       Node("a", FALSE, <<"B","a","k","e","d"," ","Z","i","t","i">>) >>

DocGrill ==
    << Node("td", TRUE, <<"G","r","i","l","l","e","d"," ","C","h","i","c","k","e","n">>),
       Node("li", FALSE, <<" "," ","G","r","i","l","l","e","d"," ","C","h","i","c","k","e","n"," ">>),
       Node("span", FALSE, <<"G","R","I","L","L","E","D"," ","C","H","I","C","K","E","N">>) >>

DocDinner ==
    << Node("div", TRUE, <<"B","a","k","e","d"," ","S","a","l","m","o","n">>),
       Node("td", FALSE, <<"B","e","e","f"," ","S","t","i","r","-","F","r","y">>),
       Node("strong", FALSE, <<"B","a","k","e","d"," ","S","a","l","m","o","n">>) >>

Documents == {DocEmpty, DocNoise, DocGrill, DocDinner}

\* the texts the four scans append, then the clean-up, set() and the
\* navigation filter; the result as a set
extract_food_items_from_response(soup) ==
    LET nodes   == Range(soup)
        method1 == {n \in nodes : n.tag \in {"div", "td", "span"} /\ n.class_match}
        method2 == {n \in nodes : n.tag = "td"}
        method3 == {n \in nodes : n.tag = "li"}
        method4 == {n \in nodes : /\ n.tag \in {"span", "div", "p", "strong", "b"}
                                  /\ word_count(get_text(n)) <= 6}
        found   == {get_text(n) : n \in {m \in method1 \cup method2 \cup method3 \cup method4 :
                                            looks_like_food_item(get_text(m))}}
        cleaned == {item \in found : Len(strip(item)) > 2}
    IN  {item \in cleaned : ~is_navigation_or_ui_text(item)}

\* list(set(...)): the set in whatever order the hash table gives
Orderings(S) ==
    {s \in [1..Cardinality(S) -> S] : \A a, b \in 1..Cardinality(S) : a # b => s[a] # s[b]}

\* The selCampus and selMeal options of the initial page, by their texts.
FormNoCampus ==
    [campus |-> << <<"U","n","i","v","e","r","s","i","t","y"," ","P","a","r","k">> >>,
     meal   |-> << <<"B","r","e","a","k","f","a","s","t">>, <<"L","u","n","c","h">>, <<"D","i","n","n","e","r">> >>]
FormNoMeals ==
    [campus |-> << <<"U","n","i","v","e","r","s","i","t","y"," ","P","a","r","k">>, <<"A","l","t","o","o","n","a"," ","-"," ","P","o","r","t"," ","S","k","y"," ","C","a","f","e">> >>,
     meal   |-> <<>>]
FormLunch ==
    [campus |-> << <<"A","l","t","o","o","n","a"," ","-"," ","P","o","r","t"," ","S","k","y"," ","C","a","f","e">> >>,
     meal   |-> << <<"L","u","n","c","h">> >>]
FormNoLunch ==
    [campus |-> << <<"U","n","i","v","e","r","s","i","t","y"," ","P","a","r","k">>, <<"A","l","t","o","o","n","a"," ","-"," ","P","o","r","t"," ","S","k","y"," ","C","a","f","e">> >>,
     meal   |-> << <<"L","a","t","e"," ","N","i","g","h","t">>, <<"B","r","e","a","k","f","a","s","t">>, <<"D","i","n","n","e","r">> >>]

Forms == {FormNoCampus, FormNoMeals, FormLunch, FormNoLunch}

altoona_patterns == << <<"a","l","t","o","o","n","a">>, <<"p","o","r","t"," ","s","k","y">>, <<"p","o","r","t"," ","s","k","y"," ","c","a","f","e">> >>

None == <<>>

\* the value of the first campus option whose text matches, or None
get_altoona_campus_value(campus_options) ==
    LET hit == {k \in DOMAIN campus_options : AnyIn(altoona_patterns, lower(campus_options[k]))}
    IN  IF hit = {} THEN None ELSE campus_options[SetMin(hit)]

target_meals == << "Breakfast", "Lunch", "Dinner" >>

meal_mapping ==
    [Breakfast |-> << <<"b","r","e","a","k","f","a","s","t">>, <<"m","o","r","n","i","n","g">> >>,
     Lunch     |-> << <<"l","u","n","c","h">>, <<"m","i","d","d","a","y">> >>,
     Dinner    |-> << <<"d","i","n","n","e","r">>, <<"e","v","e","n","i","n","g">>, <<"s","u","p","p","e","r">> >>]

\* the value of the first meal option whose text holds a keyword of the
\* target meal, or None
meal_value_for(target_meal, options) ==
    LET hit == {k \in DOMAIN options : AnyIn(meal_mapping[target_meal], lower(options[k]))}
    IN  IF hit = {} THEN None ELSE options[SetMin(hit)]

fallback_meals ==
    [Breakfast |-> << <<"S","c","r","a","m","b","l","e","d"," ","E","g","g","s">>, <<"T","u","r","k","e","y"," ","S","a","u","s","a","g","e">>, <<"O","a","t","m","e","a","l">>,
                      <<"F","r","e","s","h"," ","F","r","u","i","t">>, <<"Y","o","g","u","r","t">> >>,
     Lunch     |-> << <<"G","r","i","l","l","e","d"," ","C","h","i","c","k","e","n"," ","S","a","l","a","d">>, <<"T","u","r","k","e","y"," ","C","l","u","b"," ","S","a","n","d","w","i","c","h">>,
                      <<"V","e","g","e","t","a","b","l","e"," ","S","o","u","p">>, <<"Q","u","i","n","o","a"," ","B","o","w","l">> >>,
     Dinner    |-> << <<"B","a","k","e","d"," ","S","a","l","m","o","n">>, <<"B","e","e","f"," ","S","t","i","r","-","F","r","y">>,
                      <<"G","r","i","l","l","e","d"," ","C","h","i","c","k","e","n"," ","B","r","e","a","s","t">>, <<"P","a","s","t","a"," ","P","r","i","m","a","v","e","r","a">> >>]

get_fallback_data(r) ==
    [meal_name \in DOMAIN fallback_meals |->
        sort_by_score_desc(analyze_food_health_local(fallback_meals[meal_name], r))]

\* __init__: line 28 assigns the literal key to the parameter before
\* `gemini_api_key or os.getenv('GEMINI_API_KEY')` is evaluated
init_gemini_api_key(key_arg, env_key) ==
    LET literal == TRUE
    IN  literal \/ env_key

\* the lists handed to analyze_food_with_gemini when it is called directly
Catalogue ==
    << <<"G","r","i","l","l","e","d"," ","B","e","e","f"," ","S","t","e","a","k">>, <<"T","u","r","k","e","y"," ","S","a","u","s","a","g","e">>, <<"B","a","k","e","d"," ","S","a","l","m","o","n">>,
       <<"F","r","i","e","d"," ","C","h","i","c","k","e","n"," ","T","e","n","d","e","r","s">>, <<"H","a","m"," ","a","n","d"," ","C","h","e","e","s","e"," ","O","m","e","l","e","t">>, <<"P","u","l","l","e","d"," ","P","o","r","k"," ","S","a","n","d","w","i","c","h">>,
       <<"B","a","c","o","n"," ","C","h","e","e","s","e","b","u","r","g","e","r">>, <<"T","u","n","a"," ","M","e","l","t">>, <<"O","a","t","m","e","a","l">>, <<"G","a","r","d","e","n"," ","S","a","l","a","d">>,
       <<"G","r","e","e","k"," ","Y","o","g","u","r","t">>, <<"Q","u","i","n","o","a"," ","B","o","w","l">>, <<"S","t","e","a","m","e","d"," ","B","r","o","c","c","o","l","i">> >>

ItemLists ==
    {[k \in 1..n |-> Catalogue[((k - 1) % Len(Catalogue)) + 1]] : n \in 0..MaxItems}

\* the fragments handed to looks_like_food_item when it is called directly:
\* up to MaxHeadWords words of Vocabulary, then up to MaxFiller times the
\* word "plain", joined by single blanks
MaxHeadWords == 2
MaxFiller == 8

Vocabulary ==
    { <<"O","a","t","m","e","a","l">>, <<"h","o","t">>, <<"w","r","a","p">>, <<"c","h","i","c","k","e","n">>, <<"m","e","n","u">>, <<"w","i","t","h">>, <<"@">>,
      <<"1","2","3","4","5","6","7","8">> }

RECURSIVE join_words(_)
join_words(ws) ==
    IF ws = <<>> THEN <<>>
    ELSE IF Len(ws) = 1 THEN ws[1]
    ELSE ws[1] \o <<" ">> \o join_words(Tail(ws))

Fragments ==
    {join_words(head \o [k \in 1..n |-> <<"p","l","a","i","n">>]) :
        head \in UNION {[1..h -> Vocabulary] : h \in 0..MaxHeadWords},
        n \in 0..MaxFiller}

----------------------------------------------------------------------------
(* state *)

VARIABLES
    pc,                   \* where the run is: ready, meal, batch, scored, classified, done
    exclude_beef,         \* self.exclude_beef
    exclude_pork,         \* self.exclude_pork
    vegetarian,           \* self.vegetarian
    credential_supplied,  \* a key was passed to __init__ or GEMINI_API_KEY is set
    gemini_api_key,       \* self.gemini_api_key is truthy
    meal_options,         \* run_analysis: form_options['meal'], the option texts
    target,               \* run_analysis: index of target_meal in target_meals
    food_items,           \* the list being scored
    i,                    \* analyze_food_with_gemini: the loop variable
    all_results,          \* analyze_food_with_gemini: all_results
    last_response,        \* what the last POST to the service came to
    requests,             \* POSTs sent to the scoring service so far
    failures,             \* POSTs of the current call that ended in the except branch
    results,              \* run_analysis: results, meal name -> sorted list
    returned,             \* what run_analysis returned
    text,                 \* looks_like_food_item: the fragment it was called on
    verdict               \* looks_like_food_item: none, accept (True) or reject (False)

vars ==
    << pc, exclude_beef, exclude_pork, vegetarian, credential_supplied,
       gemini_api_key, meal_options, target, food_items, i, all_results,
       last_response, requests, failures, results, returned, text, verdict >>

restrictions ==
    [exclude_beef |-> exclude_beef, exclude_pork |-> exclude_pork,
     vegetarian |-> vegetarian]

EmptyDict == <<>>

\* the state after MenuAnalyzer(...) is constructed
Init ==
    /\ pc = "ready"
    /\ exclude_beef \in BOOLEAN
    /\ exclude_pork \in BOOLEAN
    /\ vegetarian \in BOOLEAN
    /\ \E key_arg \in BOOLEAN, env_key \in BOOLEAN :
          /\ credential_supplied = (key_arg \/ env_key)
          /\ gemini_api_key = init_gemini_api_key(key_arg, env_key)
    /\ meal_options = <<>>
    /\ target = 0
    /\ food_items = <<>>
    /\ i = 0
    /\ all_results = <<>>
    /\ last_response = NoResponse
    /\ requests = 0
    /\ failures = 0
    /\ results = EmptyDict
    /\ returned = EmptyDict
    /\ text = <<>>
    /\ verdict = "none"

config_vars == << exclude_beef, exclude_pork, vegetarian, credential_supplied, gemini_api_key >>
scoring_vars == << food_items, i, all_results, last_response, requests, failures >>
classifier_vars == << text, verdict >>

----------------------------------------------------------------------------
(* analyze_food_with_gemini *)

\* entry: without a key the local scorer answers at once, else the loop starts
analyze_food_with_gemini_enter(items) ==
    /\ food_items' = items
    /\ i' = 0
    /\ last_response' = NoResponse
    /\ failures' = 0
    /\ IF ~gemini_api_key
       THEN /\ all_results' = analyze_food_health_local(items, restrictions)
            /\ pc' = "scored"
       ELSE /\ all_results' = <<>>
            /\ pc' = "batch"

\* one pass of the loop: _analyze_batch_with_gemini on the next batch, with
\* whatever the service answers, then extend and sleep
analyze_batch ==
    /\ pc = "batch"
    /\ i < Len(food_items)
    /\ \E resp \in Responses(batch_at(food_items, i)) :
          /\ last_response' = resp
          /\ all_results' = all_results \o
                analyze_batch_with_gemini(batch_at(food_items, i), resp, restrictions)
          /\ failures' = failures + (IF raises(resp) THEN 1 ELSE 0)
    /\ requests' = requests + 1
    /\ i' = i + batch_size
    /\ UNCHANGED << pc, food_items, meal_options, target, results, returned >>
    /\ UNCHANGED config_vars
    /\ UNCHANGED classifier_vars

\* the loop is over: return all_results
analyze_return ==
    /\ pc = "batch"
    /\ i >= Len(food_items)
    /\ pc' = "scored"
    /\ last_response' = NoResponse
    /\ UNCHANGED << food_items, i, all_results, requests, failures,
                    meal_options, target, results, returned >>
    /\ UNCHANGED config_vars
    /\ UNCHANGED classifier_vars

\* a direct call of analyze_food_with_gemini on a list
call_analyze_food_with_gemini ==
    /\ pc = "ready"
    /\ \E items \in ItemLists : analyze_food_with_gemini_enter(items)
    /\ UNCHANGED << requests, meal_options, target, results, returned >>
    /\ UNCHANGED config_vars
    /\ UNCHANGED classifier_vars

----------------------------------------------------------------------------
(* run_analysis *)

\* fetch_initial_page returned None: the request raised
fetch_initial_page_fails ==
    /\ pc = "ready"
    /\ returned' = get_fallback_data(restrictions)
    /\ pc' = "done"
    /\ UNCHANGED << meal_options, target, results >>
    /\ UNCHANGED scoring_vars
    /\ UNCHANGED config_vars
    /\ UNCHANGED classifier_vars

\* the initial page arrived: campus and meal options are looked up
run_analysis_form ==
    /\ pc = "ready"
    /\ \E form \in Forms :
          IF get_altoona_campus_value(form.campus) = None \/ form.meal = <<>>
          THEN /\ returned' = get_fallback_data(restrictions)
               /\ pc' = "done"
               /\ UNCHANGED << meal_options, target, results >>
          ELSE /\ meal_options' = form.meal
               /\ target' = 1
               /\ results' = EmptyDict
               /\ pc' = "meal"
               /\ UNCHANGED returned
    /\ UNCHANGED scoring_vars
    /\ UNCHANGED config_vars
    /\ UNCHANGED classifier_vars

meal_value == meal_value_for(target_meals[target], meal_options)

\* no option of the form matches the target meal
skip_meal ==
    /\ pc = "meal"
    /\ target <= Len(target_meals)
    /\ meal_value = None
    /\ target' = target + 1
    /\ UNCHANGED << pc, meal_options, results, returned >>
    /\ UNCHANGED scoring_vars
    /\ UNCHANGED config_vars
    /\ UNCHANGED classifier_vars

\* fetch_specific_meal caught an exception and returned []
fetch_specific_meal_fails ==
    /\ pc = "meal"
    /\ target <= Len(target_meals)
    /\ meal_value # None
    /\ target' = target + 1
    /\ UNCHANGED << pc, meal_options, results, returned >>
    /\ UNCHANGED scoring_vars
    /\ UNCHANGED config_vars
    /\ UNCHANGED classifier_vars

\* fetch_specific_meal returned the items extracted from the page; an empty
\* list moves on to the next meal, any other is handed to the scorer
fetch_specific_meal ==
    /\ pc = "meal"
    /\ target <= Len(target_meals)
    /\ meal_value # None
    /\ \E soup \in Documents :
       \E items \in Orderings(extract_food_items_from_response(soup)) :
          IF items = <<>>
          THEN /\ target' = target + 1
               /\ UNCHANGED << pc, food_items, i, all_results, last_response, failures >>
          ELSE /\ analyze_food_with_gemini_enter(items)
               /\ UNCHANGED target
    /\ UNCHANGED << requests, meal_options, results, returned >>
    /\ UNCHANGED config_vars
    /\ UNCHANGED classifier_vars

\* analyzed_items.sort(...); results[target_meal] = analyzed_items
store_meal ==
    /\ pc = "scored"
    /\ target >= 1
    /\ results' = [m \in DOMAIN results \cup {target_meals[target]} |->
                      IF m = target_meals[target]
                      THEN sort_by_score_desc(all_results)
                      ELSE results[m]]
    /\ target' = target + 1
    /\ pc' = "meal"
    /\ food_items' = <<>>
    /\ i' = 0
    /\ all_results' = <<>>
    /\ failures' = 0
    /\ UNCHANGED << last_response, requests, meal_options, returned >>
    /\ UNCHANGED config_vars
    /\ UNCHANGED classifier_vars

\* return results if results else self.get_fallback_data()
run_analysis_return ==
    /\ pc = "meal"
    /\ target > Len(target_meals)
    /\ returned' = IF DOMAIN results # {} THEN results ELSE get_fallback_data(restrictions)
    /\ pc' = "done"
    /\ UNCHANGED << meal_options, target, results >>
    /\ UNCHANGED scoring_vars
    /\ UNCHANGED config_vars
    /\ UNCHANGED classifier_vars

----------------------------------------------------------------------------
(* looks_like_food_item *)

\* a direct call of looks_like_food_item on a fragment
call_looks_like_food_item ==
    /\ pc = "ready"
    /\ \E fragment \in Fragments :
          /\ text' = fragment
          /\ verdict' = IF looks_like_food_item(fragment) THEN "accept" ELSE "reject"
    /\ pc' = "classified"
    /\ UNCHANGED << meal_options, target, results, returned >>
    /\ UNCHANGED scoring_vars
    /\ UNCHANGED config_vars

----------------------------------------------------------------------------
(* specifications *)

\* a run of run_analysis
Next ==
    \/ fetch_initial_page_fails
    \/ run_analysis_form
    \/ skip_meal
    \/ fetch_specific_meal_fails
    \/ fetch_specific_meal
    \/ analyze_batch
    \/ analyze_return
    \/ store_meal
    \/ run_analysis_return

Spec == Init /\ [][Next]_vars

\* a direct call of analyze_food_with_gemini
NextScore ==
    \/ call_analyze_food_with_gemini
    \/ analyze_batch
    \/ analyze_return

SpecScore == Init /\ [][NextScore]_vars

\* a direct call of looks_like_food_item
NextClassify == call_looks_like_food_item

SpecClassify == Init /\ [][NextClassify]_vars

----------------------------------------------------------------------------
(* properties *)

\* every scored item the run holds: in all_results, results and returned
ScoredItems ==
    Range(all_results)
    \cup UNION {Range(results[m]) : m \in DOMAIN results}
    \cup UNION {Range(returned[m]) : m \in DOMAIN returned}

\* the disqualifying keywords of each restriction, as the specification
\* lists them
pork_words == << <<"p","o","r","k">>, <<"b","a","c","o","n">>, <<"s","a","u","s","a","g","e">>, <<"h","a","m">> >>
meat_words ==
    << <<"b","e","e","f">>, <<"p","o","r","k">>, <<"c","h","i","c","k","e","n">>, <<"t","u","r","k","e","y">>, <<"f","i","s","h">>, <<"s","a","l","m","o","n">>,
       <<"t","u","n","a">>, <<"b","a","c","o","n">>, <<"s","a","u","s","a","g","e">>, <<"h","a","m">> >>

Disqualified(name) ==
    \/ exclude_beef /\ Contains(<<"b","e","e","f">>, lower(name))
    \/ exclude_pork /\ AnyIn(pork_words, lower(name))
    \/ vegetarian /\ AnyIn(meat_words, lower(name))

\* the items of the batch the loop is at: positions i+1 .. i+batch_size
CurrentBatch ==
    [k \in 1..(IF Len(food_items) - i < batch_size THEN Len(food_items) - i ELSE batch_size)
        |-> food_items[i + k]]

\* C1: every ScoredItem, from the service or from the local scorer, has a
\* score between 0 and 100.
C1_ScoreWithinBounds ==
    \A it \in ScoredItems : 0 <= it.score /\ it.score <= 100

\* C2: a batch whose request fails (network error, bad status, unparsable
\* or malformed response) does not raise: that batch alone is scored by the
\* local scorer, what earlier batches gave is kept, the loop goes on to the
\* next batch, and by the time the call returns every batch was sent.
C2_BatchFailureIsLocal ==
    [][/\ requests' = requests + 1 =>
            /\ SubSeq(all_results', 1, Len(all_results)) = all_results
            /\ last_response'.kind \in FailureKinds =>
                  SubSeq(all_results', Len(all_results) + 1, Len(all_results'))
                     = analyze_food_health_local(CurrentBatch, restrictions)
            /\ pc' = "batch"
            /\ i' = i + batch_size
       /\ (pc = "batch" /\ pc' = "scored") =>
            /\ all_results' = all_results
            /\ requests' * batch_size >= Len(food_items)]_vars

\* C2 witness: the first batch failed and was scored locally, and the
\* second batch was then answered by the service.
C2_Witness ==
    /\ pc = "batch"
    /\ requests = 2
    /\ failures = 1
    /\ last_response.kind = "mapping"
    /\ Len(last_response.entries) >= 1
    /\ Len(all_results) = batch_size + Len(last_response.entries)

\* C3: when every request of a call failed, the call returns exactly what
\* the local scorer returns on the whole list, in the same order.
C3_FallbackEquivalence ==
    (pc = "scored" /\ failures = requests) =>
        all_results = analyze_food_health_local(food_items, restrictions)

\* C3 witness: a list of two batches, both requests failed.
C3_Witness ==
    /\ pc = "scored"
    /\ Len(food_items) > batch_size
    /\ requests = 2
    /\ failures = 2

\* C4: in the local scorer an active restriction whose disqualifying
\* keyword is in the item forces score 0 and the exclusion reason alone.
C4_RestrictionPrecedence ==
    (pc = "scored" /\ failures = requests) =>
        \A k \in DOMAIN food_items :
            Disqualified(food_items[k]) =>
                /\ all_results[k].score = 0
                /\ Len(all_results[k].reasoning) = 1
                /\ all_results[k].reasoning[1][1] = "Excluded: contains"

\* C5: the menu run_analysis returns holds no item that an active
\* restriction disqualifies.
C5_NoRestrictedItemReturned ==
    pc = "done" =>
        \A m \in DOMAIN returned : \A k \in DOMAIN returned[m] :
            ~Disqualified(returned[m][k].name)

\* C6: the menu run_analysis returns has a meal period with at least one
\* scored item.
C6_NonEmptyReport ==
    pc = "done" => \E m \in DOMAIN returned : returned[m] # <<>>

\* C7: without a credential (no constructor argument, GEMINI_API_KEY unset)
\* no request is sent to the scoring service.
C7_NoCredentialNoRequest ==
    ~credential_supplied => requests = 0

\* C8: the extracted list has at most one entry per trimmed, case-folded
\* name.
C8_OneEntryPerNormalizedName ==
    pc \in {"batch", "scored"} =>
        \A a, b \in DOMAIN food_items :
            a # b => lower(strip(food_items[a])) # lower(strip(food_items[b]))

\* out is ordered by non-increasing score and, score by score, holds the
\* items of inp in the order of inp
StableDescending(out, inp) ==
    /\ Len(out) = Len(inp)
    /\ \A k \in 1..(Len(out) - 1) : out[k].score >= out[k + 1].score
    /\ \A v \in {inp[k].score : k \in DOMAIN inp} \cup {out[k].score : k \in DOMAIN out} :
          SelectSeq(out, LAMBDA it : it.score = v) = SelectSeq(inp, LAMBDA it : it.score = v)

\* C9: each meal period's list of the returned menu is ordered by
\* non-increasing score, items of equal score in the order the scorer
\* produced them: for a scraped meal the order of all_results, for the
\* built-in menu the order of the local scorer's output.
C9_SortedStable ==
    [][/\ (pc = "scored" /\ pc' = "meal") =>
            /\ target_meals[target] \in DOMAIN results'
            /\ StableDescending(results'[target_meals[target]], all_results)
            /\ \A m \in DOMAIN results : m # target_meals[target] => results'[m] = results[m]
       /\ (pc # "done" /\ pc' = "done") =>
            IF pc = "meal" /\ DOMAIN results # {}
            THEN returned' = results
            ELSE /\ DOMAIN returned' = DOMAIN fallback_meals
                 /\ \A m \in DOMAIN returned' :
                       StableDescending(returned'[m],
                           analyze_food_health_local(fallback_meals[m], restrictions))]_vars

\* C9 witness: a returned scraped menu in which two different items tie.
C9_Witness ==
    /\ pc = "done"
    /\ DOMAIN results # {}
    /\ \E m \in DOMAIN returned : \E a, b \in DOMAIN returned[m] :
          /\ a < b
          /\ returned[m][a].score = returned[m][b].score
          /\ returned[m][a].name # returned[m][b].name

\* C10: each entry of a mapping response is converted on its own: a score
\* that is missing or not an integer becomes 50, a missing reasoning becomes
\* empty, and the other entries keep the score the service gave.
C10_EntryDefaults ==
    (pc = "batch" /\ last_response.kind = "mapping") =>
        LET n == Len(last_response.entries)
            base == Len(all_results) - n
        IN  /\ base >= 0
            /\ \A k \in 1..n :
                  LET e == last_response.entries[k]
                      got == all_results[base + k]
                  IN  /\ got.name = e.key
                      /\ got.score = IF e.score.kind = "int" THEN e.score.value ELSE 50
                      /\ ~e.has_reasoning => got.reasoning = NoReasoning

\* the hard rejects, as the specification states them: length outside
\* [3,100], a non-food term, fewer than half of the characters alphabetic
PassesHardRejects(t) ==
    /\ Len(strip(t)) >= 3
    /\ Len(strip(t)) <= 100
    /\ ~AnyIn(ui_terms, lower(strip(t)))
    /\ 2 * Cardinality({k \in 1..Len(strip(t)) : isalpha(strip(t)[k])}) >= Len(strip(t))

\* a fragment with neither a non-food term nor a URL/email-like substring
NoDisqualifyingSignal(t) ==
    ~AnyIn(ui_terms, lower(strip(t))) /\ ~AnyIn(url_like, strip(t))

\* C11: a fragment that passes the hard rejects and has no strong
\* food-signal word is accepted exactly when it has at most 8 words, no
\* URL/email-like substring, and a moderate food-signal word or no
\* disqualifying signal.
C11_SoftAccept ==
    (/\ pc = "classified"
     /\ PassesHardRejects(text)
     /\ ~AnyIn(strong_food_words, lower(strip(text)))) =>
        (verdict = "accept" <=>
            /\ word_count(strip(text)) <= 8
            /\ ~AnyIn(url_like, strip(text))
            /\ \/ AnyIn(moderate_food_words, lower(strip(text)))
               \/ NoDisqualifyingSignal(text))

\* how many entries of a list of scored items, or of names, carry a name
CountScored(items, name) == Cardinality({k \in DOMAIN items : items[k].name = name})
CountNamed(names, name) == Cardinality({k \in DOMAIN names : names[k] = name})

\* C12: analyze_food_with_gemini returns one scored entry per input item
\* and no entry whose name is not in the input, whether the batches were
\* scored by the service or by the local fallback.
C12_OneEntryPerInputItem ==
    pc = "scored" =>
        /\ Len(all_results) = Len(food_items)
        /\ \A name \in Range(food_items) \cup {it.name : it \in Range(all_results)} :
              CountScored(all_results, name) = CountNamed(food_items, name)
====
